---------------------------- MODULE Spec2Model ----------------------------
(***************************************************************************)
(* Deckard's Helper (DeckHelper.ino): a MIDI pass-through that turns       *)
(* channel aftertouch into poly aftertouch for the most recently pressed   *)
(* key, and a CS-80 style ribbon read from a softpot on A0.                *)
(*                                                                         *)
(* One loop() iteration is two steps: midiIO.read(), which dispatches at   *)
(* most one decoded message to the callbacks (pc = "read"), and then the   *)
(* ribbon code (pc = "ribbon").                                            *)
(*                                                                         *)
(* The float variables (accumulator, sample[], currentValue, baseline)     *)
(* are fixed-point integers in units of 1/Scale.                           *)
(***************************************************************************)
EXTENDS Integers, Sequences, FiniteSets

(***************************************************************************)
(* Program constants.                                                      *)
(***************************************************************************)
slope_xsize == 20
slope_ysize == 1
baseline_limit == 13
ThrottleMs == 10
Scale == 10000
NoNote == 255
AdcMax == 4095

(***************************************************************************)
(* Bounds of the model and the inputs it draws.                            *)
(***************************************************************************)
MaxTicks == 21
MaxChanges == 3
MaxTime == 22
MaxMessages == 5
ShortTicks == 3
RangeTicks == 6

Notes == {60, 64}
KeyNotes == {60, 64, 67}
Channels == {1, 2}
Velocities == {0, 100}
Pressures == {0, 80}
OtherTypes == {"ControlChange", "ProgramChange"}
OtherData == {0, 127}
OffVelocities == {0}
Controllers == {7}
Seeds == {0, 13}
Readings == {0, 20}
Deltas == {0, 10, 11}
RangeReadings == {0, AdcMax}
\* <<baseline, accumulator>> of a ribbon at rest: untouched at either end of
\* the range, and held at one end after the finger went down at the other
RangeStates == {<<0, 0>>, <<0, AdcMax * Scale>>,
                <<baseline_limit * Scale + 1, AdcMax * Scale>>,
                <<AdcMax * Scale, (baseline_limit + 1) * Scale>>}

VARIABLES
    midiNoteBuffer,         \* held notes, oldest press first
    lastAfterTouchMessage,  \* [note, pressure, channel]
    lastChannelUsed,
    baseline, accumulator, sample, currentValue,
    loopCount, lastMessage, lastBend,
    now,                    \* millis()
    pc,                     \* "read" or "ribbon": position inside loop()
    event,                  \* the message midiIO.read() dispatched in this iteration
    sent,                   \* the messages sent by the last step, in order
    branch,                 \* the branch the ribbon code took in the last tick
    pressured,              \* (note, channel) pairs whose last poly aftertouch sent was nonzero
    history,                \* the last slope_xsize accumulators, oldest first
    bendTime,               \* millis() of the last bend (non-reset) message sent, -1 if none
    lastReading, changes, ticks,
    received,               \* the messages dispatched so far
    fed,                    \* equal readings fed since the ribbon was last settled, -1 if they differed
    lastPitch,              \* value and millis() of the last pitch bend message sent, reset or bend
    pressedAt,              \* per note, which message pressed it last, 0 once released
    lastNoteChannel,        \* the channel of the last NoteOn or NoteOff dispatched, 0 before the first
    lastReset               \* "start" or "end": the last contact transition, "none" before the first

midiVars == <<midiNoteBuffer, lastAfterTouchMessage, lastChannelUsed>>
ribbonVars == <<baseline, accumulator, sample, currentValue, loopCount,
                lastMessage, lastBend, now, branch, history, bendTime,
                lastReading, changes, ticks, fed, lastPitch, lastReset>>
vars == <<midiNoteBuffer, lastAfterTouchMessage, lastChannelUsed,
          baseline, accumulator, sample, currentValue, loopCount,
          lastMessage, lastBend, now, pc, event, sent, branch, pressured,
          history, bendTime, lastReading, changes, ticks, received, fed,
          lastPitch, lastReset, pressedAt, lastNoteChannel>>

(***************************************************************************)
(* AfterTouchMessage and the outgoing messages.                            *)
(***************************************************************************)
clear == [note |-> 0, pressure |-> 0, channel |-> 0]

set(n, p, c) == [note |-> n, pressure |-> p, channel |-> c]

send(type, data1, data2, channel) ==
    [type |-> type, data1 |-> data1, data2 |-> data2, channel |-> channel]

sendPitchBend(value, channel) ==
    [type |-> "PitchBend", data1 |-> value, data2 |-> 0, channel |-> channel]

(***************************************************************************)
(* NotePriorityBuffer with the kLast policy (NoteBuffer.h).                *)
(***************************************************************************)
noteOff(nb, note) == SelectSeq(nb, LAMBDA x : x # note)

noteOn(nb, note, velocity) == Append(noteOff(nb, note), note)

curNote(nb) == IF nb = <<>> THEN NoNote ELSE nb[Len(nb)]

(***************************************************************************)
(* The MIDI callbacks, as functions of the remapper state                  *)
(* st = [nb, at, lcu, out]: note buffer, lastAfterTouchMessage,            *)
(* lastChannelUsed and the messages sent so far in this step.              *)
(***************************************************************************)
\* MIDINoteOffHandler leaving the note in the note buffer
NoteOffKeepsNote(st, channel, note, velocity) ==
    LET s1 == [st EXCEPT !.lcu = channel]
    IN  IF s1.at.note = note /\ s1.at.pressure # 0
        THEN [s1 EXCEPT
                !.out = Append(@, send("AfterTouchPoly", s1.at.note, 0,
                                       s1.at.channel)),
                !.at = clear]
        ELSE s1

\* MIDINoteOffHandler clearing the pressure whatever note is released
NoteOffClearsAny(st, channel, note, velocity) ==
    LET s1 == [st EXCEPT !.lcu = channel]
        s2 == IF s1.at.pressure # 0
              THEN [s1 EXCEPT
                      !.out = Append(@, send("AfterTouchPoly", s1.at.note, 0,
                                             s1.at.channel)),
                      !.at = clear]
              ELSE s1
    IN  [s2 EXCEPT !.nb = noteOff(@, note)]

\* MIDINoteOffHandler without the pressure test
NoteOffNeverClears(st, channel, note, velocity) ==
    LET s1 == [st EXCEPT !.lcu = channel]
    IN  [s1 EXCEPT !.nb = noteOff(@, note)]

\* MIDINoteOffHandler not recording the channel
NoteOffForgetsChannel(st, channel, note, velocity) ==
    LET s2 == IF st.at.note = note /\ st.at.pressure # 0
              THEN [st EXCEPT
                      !.out = Append(@, send("AfterTouchPoly", st.at.note, 0,
                                             st.at.channel)),
                      !.at = clear]
              ELSE st
    IN  [s2 EXCEPT !.nb = noteOff(@, note)]

MIDINoteOffHandler(st, channel, note, velocity) ==
    LET s1 == [st EXCEPT !.lcu = channel]
        s2 == IF s1.at.note = note /\ s1.at.pressure # 0
              THEN [s1 EXCEPT
                      !.out = Append(@, send("AfterTouchPoly", s1.at.note, 0,
                                             s1.at.channel)),
                      !.at = clear]
              ELSE s1
    IN  [s2 EXCEPT !.nb = noteOff(@, note)]

\* MIDINoteOnHandler forgetting the pressure of the previous note: the
\* record is cleared but no poly aftertouch goes out
NoteOnForgetsPressure(st, channel, note, velocity) ==
    LET s1 == [st EXCEPT !.lcu = channel]
    IN  IF velocity = 0
        THEN MIDINoteOffHandler(s1, channel, note, velocity)
        ELSE LET s2 == IF s1.at.note # note /\ s1.at.pressure # 0
                       THEN [s1 EXCEPT !.at = clear]
                       ELSE s1
             IN  [s2 EXCEPT !.nb = noteOn(@, note, velocity)]

\* MIDINoteOnHandler not telling the note buffer of the note
NoteOnSkipsBuffer(st, channel, note, velocity) ==
    LET s1 == [st EXCEPT !.lcu = channel]
    IN  IF velocity = 0
        THEN MIDINoteOffHandler(s1, channel, note, velocity)
        ELSE IF s1.at.note # note /\ s1.at.pressure # 0
             THEN [s1 EXCEPT
                     !.out = Append(@, send("AfterTouchPoly", s1.at.note, 0,
                                            s1.at.channel)),
                     !.at = clear]
             ELSE s1

\* MIDINoteOnHandler without the velocity 0 test
NoteOnIgnoresVelocity(st, channel, note, velocity) ==
    LET s1 == [st EXCEPT !.lcu = channel]
        s2 == IF s1.at.note # note /\ s1.at.pressure # 0
              THEN [s1 EXCEPT
                      !.out = Append(@, send("AfterTouchPoly", s1.at.note, 0,
                                             s1.at.channel)),
                      !.at = clear]
              ELSE s1
    IN  [s2 EXCEPT !.nb = noteOn(@, note, velocity)]

MIDINoteOnHandler(st, channel, note, velocity) ==
    LET s1 == [st EXCEPT !.lcu = channel]
    IN  IF velocity = 0
        THEN MIDINoteOffHandler(s1, channel, note, velocity)
        ELSE LET s2 == IF s1.at.note # note /\ s1.at.pressure # 0
                       THEN [s1 EXCEPT
                               !.out = Append(@, send("AfterTouchPoly",
                                                      s1.at.note, 0,
                                                      s1.at.channel)),
                               !.at = clear]
                       ELSE s1
             IN  [s2 EXCEPT !.nb = noteOn(@, note, velocity)]

\* MIDIThruHandler dropping channel aftertouch while no note is held
ThruDropsWithoutNote(st, message, data1, data2, channel) ==
    IF message = "AfterTouchChannel"
    THEN IF st.nb = <<>> THEN st
         ELSE LET note == curNote(st.nb)
                  pressure == data1
              IN  [st EXCEPT
                     !.at = set(note, pressure, channel),
                     !.out = Append(@, send("AfterTouchPoly", note, pressure,
                                            channel))]
    ELSE [st EXCEPT !.out = Append(@, send(message, data1, data2, channel))]

\* MIDIThruHandler recording every message it forwards as the aftertouch
\* message
ThruRecordsAll(st, message, data1, data2, channel) ==
    LET note == curNote(st.nb)
    IN  IF message = "AfterTouchChannel"
        THEN [st EXCEPT
                !.at = set(note, data1, channel),
                !.out = Append(@, send("AfterTouchPoly", note, data1, channel))]
        ELSE [st EXCEPT
                !.at = set(note, data1, channel),
                !.out = Append(@, send(message, data1, data2, channel))]

MIDIThruHandler(st, message, data1, data2, channel) ==
    IF message = "AfterTouchChannel"
    THEN LET note == curNote(st.nb)
             pressure == data1
         IN  [st EXCEPT
                !.at = set(note, pressure, channel),
                !.out = Append(@, send("AfterTouchPoly", note, pressure,
                                       channel))]
    ELSE [st EXCEPT !.out = Append(@, send(message, data1, data2, channel))]

(***************************************************************************)
(* The ribbon arithmetic.                                                  *)
(***************************************************************************)
Abs(x) == IF x >= 0 THEN x ELSE -x

\* float -> int conversion truncates toward zero
Trunc(x) == IF x >= 0 THEN x \div Scale ELSE -((-x) \div Scale)

\* accumulator = 0.95*accumulator + 0.05*sensorReading, rounded to nearest
Smooth(acc, sensorReading) == (19 * acc + sensorReading * Scale + 10) \div 20

StoreIndex(count) == count % slope_xsize

\* EarlierIndex two slots ahead: the sample of 18 ticks ago
EarlierIndexOffByOne(count) == (count + 2) % slope_xsize

EarlierIndex(count) == (count + 1) % slope_xsize

\* SlopeOk letting a slope of exactly slope_ysize through
SlopeOkInclusive(acc, earlierSample) ==
    Abs(acc - earlierSample) <= slope_ysize * Scale

SlopeOk(acc, earlierSample) == Abs(acc - earlierSample) < slope_ysize * Scale

\* Bend with a scale factor of 4
BendTimesFour(value, base) == Trunc(4 * (value - base))

Bend(value, base) == Trunc(2 * (value - base))

\* ThrottleOpen from 10 ms on
ThrottleOpenAtLimit(millis, last) == (millis - last) >= ThrottleMs

ThrottleOpen(millis, last) == (millis - last) > ThrottleMs

\* NextLoopCount without the wrap to 0
NextLoopCountNoWrap(count) == count + 1

NextLoopCount(count) ==
    IF (count + 1) % slope_xsize = 0 THEN 0 ELSE count + 1

\* ResetBend held back by the 10 ms throttle
ResetBendThrottled(lastMsg, millis, channel) ==
    IF ThrottleOpen(millis, lastMsg) THEN <<sendPitchBend(0, channel)>>
    ELSE <<>>

\* midiIO.sendPitchBend(0, lastChannelUsed) on contact start and contact end
ResetBend(lastMsg, millis, channel) == <<sendPitchBend(0, channel)>>

\* Contact not marking the baseline when the finger goes down
ContactForgetsBaseline(base, value, bendWas, lastMsg, millis, channel) ==
    IF base < baseline_limit * Scale
    THEN IF value > baseline_limit * Scale
         THEN [branch |-> "start", baseline |-> base, lastBend |-> bendWas,
               lastMessage |-> lastMsg,
               out |-> ResetBend(lastMsg, millis, channel)]
         ELSE [branch |-> "idle", baseline |-> base, lastBend |-> bendWas,
               lastMessage |-> lastMsg, out |-> <<>>]
    ELSE IF value <= baseline_limit * Scale
         THEN [branch |-> "end", baseline |-> 0, lastBend |-> bendWas,
               lastMessage |-> lastMsg,
               out |-> ResetBend(lastMsg, millis, channel)]
         ELSE LET bend == Bend(value, base)
              IN  IF bend # bendWas
                  THEN IF ThrottleOpen(millis, lastMsg)
                       THEN [branch |-> "bend", baseline |-> base,
                             lastBend |-> bend, lastMessage |-> millis,
                             out |-> <<sendPitchBend(bend, channel)>>]
                       ELSE [branch |-> "throttled", baseline |-> base,
                             lastBend |-> bendWas, lastMessage |-> lastMsg,
                             out |-> <<>>]
                  ELSE [branch |-> "same", baseline |-> base,
                        lastBend |-> bendWas, lastMessage |-> lastMsg,
                        out |-> <<>>]

\* Contact leaving the baseline where it was when the finger is lifted
ContactKeepsBaseline(base, value, bendWas, lastMsg, millis, channel) ==
    IF base < baseline_limit * Scale
    THEN IF value > baseline_limit * Scale
         THEN [branch |-> "start", baseline |-> value, lastBend |-> bendWas,
               lastMessage |-> lastMsg,
               out |-> ResetBend(lastMsg, millis, channel)]
         ELSE [branch |-> "idle", baseline |-> base, lastBend |-> bendWas,
               lastMessage |-> lastMsg, out |-> <<>>]
    ELSE IF value <= baseline_limit * Scale
         THEN [branch |-> "end", baseline |-> base, lastBend |-> bendWas,
               lastMessage |-> lastMsg,
               out |-> ResetBend(lastMsg, millis, channel)]
         ELSE LET bend == Bend(value, base)
              IN  IF bend # bendWas
                  THEN IF ThrottleOpen(millis, lastMsg)
                       THEN [branch |-> "bend", baseline |-> base,
                             lastBend |-> bend, lastMessage |-> millis,
                             out |-> <<sendPitchBend(bend, channel)>>]
                       ELSE [branch |-> "throttled", baseline |-> base,
                             lastBend |-> bendWas, lastMessage |-> lastMsg,
                             out |-> <<>>]
                  ELSE [branch |-> "same", baseline |-> base,
                        lastBend |-> bendWas, lastMessage |-> lastMsg,
                        out |-> <<>>]

\* The contact state machine and the pitch bend throttle (lines 129-171):
\* the branch taken, the new baseline, lastBend and lastMessage, and the
\* messages sent.
Contact(base, value, bendWas, lastMsg, millis, channel) ==
    IF base < baseline_limit * Scale
    THEN IF value > baseline_limit * Scale
         THEN [branch |-> "start", baseline |-> value, lastBend |-> bendWas,
               lastMessage |-> lastMsg,
               out |-> ResetBend(lastMsg, millis, channel)]
         ELSE [branch |-> "idle", baseline |-> base, lastBend |-> bendWas,
               lastMessage |-> lastMsg, out |-> <<>>]
    ELSE IF value <= baseline_limit * Scale
         THEN [branch |-> "end", baseline |-> 0, lastBend |-> bendWas,
               lastMessage |-> lastMsg,
               out |-> ResetBend(lastMsg, millis, channel)]
         ELSE LET bend == Bend(value, base)
              IN  IF bend # bendWas
                  THEN IF ThrottleOpen(millis, lastMsg)
                       THEN [branch |-> "bend", baseline |-> base,
                             lastBend |-> bend, lastMessage |-> millis,
                             out |-> <<sendPitchBend(bend, channel)>>]
                       ELSE [branch |-> "throttled", baseline |-> base,
                             lastBend |-> bendWas, lastMessage |-> lastMsg,
                             out |-> <<>>]
                  ELSE [branch |-> "same", baseline |-> base,
                        lastBend |-> bendWas, lastMessage |-> lastMsg,
                        out |-> <<>>]

(***************************************************************************)
(* The (note, channel) pairs left with nonzero pressure once the messages  *)
(* of out have gone out after those that left the pairs of P pressured.    *)
(***************************************************************************)
RECURSIVE Pressured(_, _)
Pressured(P, out) ==
    IF out = <<>> THEN P
    ELSE LET m == Head(out)
             Q == IF m.type # "AfterTouchPoly" THEN P
                  ELSE IF m.data2 = 0 THEN P \ {<<m.data1, m.channel>>}
                  ELSE P \cup {<<m.data1, m.channel>>}
         IN  Pressured(Q, Tail(out))

\* the state setup() leaves, and any state like it: the ring buffer and
\* currentValue all equal the accumulator
Settled(acc, buffer, value) ==
    /\ value = acc
    /\ \A i \in 0 .. slope_xsize - 1 : buffer[i] = acc

NoPitch == [value |-> 0, time |-> -1]

NoEvent == [kind |-> "none", data1 |-> 0, data2 |-> 0, channel |-> 0]

State == [nb |-> midiNoteBuffer, at |-> lastAfterTouchMessage,
          lcu |-> lastChannelUsed, out |-> <<>>]

(***************************************************************************)
(* setup()                                                                 *)
(***************************************************************************)
Init ==
    /\ midiNoteBuffer = <<>>
    /\ lastAfterTouchMessage = clear
    /\ lastChannelUsed = 0
    /\ baseline = 0
    /\ \E seed \in Seeds :
          /\ accumulator = seed * Scale
          /\ lastReading = seed
    /\ currentValue = accumulator
    /\ sample = [i \in 0 .. slope_xsize - 1 |-> accumulator]
    /\ history = [i \in 1 .. slope_xsize |-> accumulator]
    /\ loopCount = 0
    /\ lastMessage = 0
    /\ lastBend = -1
    /\ now = 0
    /\ pc = "read"
    /\ event = NoEvent
    /\ sent = <<>>
    /\ branch = "idle"
    /\ pressured = {}
    /\ bendTime = -1
    /\ changes = 0
    /\ ticks = 0
    /\ received = 0
    /\ fed = 0
    /\ lastPitch = NoPitch
    /\ lastReset = "none"
    /\ lastNoteChannel = 0
    /\ pressedAt = [n \in Notes \cup KeyNotes |-> 0]

\* loop() entered with the ribbon at rest in one of RangeStates, no bend sent
\* yet
InitRange ==
    /\ midiNoteBuffer = <<>>
    /\ lastAfterTouchMessage = clear
    /\ lastChannelUsed = 0
    /\ \E st \in RangeStates :
          /\ baseline = st[1]
          /\ accumulator = st[2]
    /\ lastReading = accumulator \div Scale
    /\ currentValue = accumulator
    /\ sample = [i \in 0 .. slope_xsize - 1 |-> accumulator]
    /\ history = [i \in 1 .. slope_xsize |-> accumulator]
    /\ loopCount = 0
    /\ lastMessage = 0
    /\ lastBend = -1
    /\ now = 0
    /\ pc = "read"
    /\ event = NoEvent
    /\ sent = <<>>
    /\ branch = IF baseline = 0 THEN "idle" ELSE "same"
    /\ pressured = {}
    /\ bendTime = -1
    /\ changes = 0
    /\ ticks = 0
    /\ received = 0
    /\ fed = 0
    /\ lastPitch = IF baseline = 0 THEN NoPitch ELSE [value |-> 0, time |-> 0]
    /\ lastReset = IF baseline = 0 THEN "none" ELSE "start"
    /\ lastNoteChannel = 0
    /\ pressedAt = [n \in Notes \cup KeyNotes |-> 0]

(***************************************************************************)
(* midiIO.read(): the callbacks run first, then the thru handler.          *)
(***************************************************************************)
Dispatched(kind, data1, data2, channel, st) ==
    /\ received < MaxMessages
    /\ received' = received + 1
    /\ midiNoteBuffer' = st.nb
    /\ lastAfterTouchMessage' = st.at
    /\ lastChannelUsed' = st.lcu
    /\ sent' = st.out
    /\ pressured' = Pressured(pressured, st.out)
    /\ event' = [kind |-> kind, data1 |-> data1, data2 |-> data2,
                 channel |-> channel]
    /\ pressedAt' = IF kind = "NoteOn" /\ data2 # 0
                    THEN [pressedAt EXCEPT ![data1] = received + 1]
                    ELSE IF kind \in {"NoteOn", "NoteOff"}
                    THEN [pressedAt EXCEPT ![data1] = 0]
                    ELSE pressedAt
    /\ lastNoteChannel' = IF kind \in {"NoteOn", "NoteOff"} THEN channel
                          ELSE lastNoteChannel
    /\ pc' = "ribbon"
    /\ UNCHANGED ribbonVars

MidiNoteOn ==
    /\ pc = "read"
    /\ \E channel \in Channels, note \in Notes, velocity \in Velocities :
          Dispatched("NoteOn", note, velocity, channel,
                     MIDIThruHandler(
                         MIDINoteOnHandler(State, channel, note, velocity),
                         "NoteOn", note, velocity, channel))

MidiNoteOff ==
    /\ pc = "read"
    /\ \E channel \in Channels, note \in Notes, velocity \in OffVelocities :
          Dispatched("NoteOff", note, velocity, channel,
                     MIDIThruHandler(
                         MIDINoteOffHandler(State, channel, note, velocity),
                         "NoteOff", note, velocity, channel))

MidiAfterTouch ==
    /\ pc = "read"
    /\ \E channel \in Channels, pressure \in Pressures :
          Dispatched("AfterTouchChannel", pressure, 0, channel,
                     MIDIThruHandler(State, "AfterTouchChannel", pressure, 0,
                                     channel))

MidiOther ==
    /\ pc = "read"
    /\ \E type \in OtherTypes, channel \in Channels,
          data1 \in Controllers, data2 \in OtherData :
          Dispatched(type, data1, data2, channel,
                     MIDIThruHandler(State, type, data1, data2, channel))

\* one keyboard on channel 1, three keys
KeyPress ==
    /\ pc = "read"
    /\ \E note \in KeyNotes, velocity \in Velocities \ {0} :
          Dispatched("NoteOn", note, velocity, 1,
                     MIDIThruHandler(
                         MIDINoteOnHandler(State, 1, note, velocity),
                         "NoteOn", note, velocity, 1))

KeyRelease ==
    /\ pc = "read"
    /\ \E note \in KeyNotes, velocity \in OffVelocities :
          Dispatched("NoteOff", note, velocity, 1,
                     MIDIThruHandler(
                         MIDINoteOffHandler(State, 1, note, velocity),
                         "NoteOff", note, velocity, 1))

NoMessage ==
    /\ pc = "read"
    /\ pc' = "ribbon"
    /\ event' = NoEvent
    /\ sent' = <<>>
    /\ UNCHANGED <<midiVars, ribbonVars, pressured, received, pressedAt,
                   lastNoteChannel>>

(***************************************************************************)
(* The ribbon code of loop(), for one sensor reading, delta milliseconds   *)
(* after the previous iteration.                                           *)
(***************************************************************************)
RibbonTick(sensorReading, delta) ==
    /\ pc = "ribbon"
    /\ ticks < MaxTicks
    /\ now + delta <= MaxTime
    /\ sensorReading # lastReading => changes < MaxChanges
    /\ LET acc == Smooth(accumulator, sensorReading)
           stored == [sample EXCEPT ![StoreIndex(loopCount)] = acc]
           earlierSample == stored[EarlierIndex(loopCount)]
           value == IF SlopeOk(acc, earlierSample) THEN acc ELSE currentValue
           c == Contact(baseline, value, lastBend, lastMessage, now + delta,
                        lastChannelUsed)
       IN  /\ accumulator' = acc
           /\ sample' = stored
           /\ currentValue' = value
           /\ baseline' = c.baseline
           /\ lastBend' = c.lastBend
           /\ lastMessage' = c.lastMessage
           /\ branch' = c.branch
           /\ sent' = c.out
           /\ bendTime' = IF c.branch = "bend" THEN now + delta ELSE bendTime
           /\ history' = Append(Tail(history), acc)
           /\ fed' = IF Settled(acc, stored, value) THEN 0
                     ELSE IF Settled(accumulator, sample, currentValue) THEN 1
                     ELSE IF fed = 1 /\ sensorReading = lastReading THEN 2
                     ELSE -1
           /\ lastPitch' = IF c.out = <<>> THEN lastPitch
                           ELSE [value |-> c.out[Len(c.out)].data1,
                                 time |-> now + delta]
           /\ lastReset' = IF c.branch \in {"start", "end"} THEN c.branch
                           ELSE lastReset
    /\ loopCount' = NextLoopCount(loopCount)
    /\ now' = now + delta
    /\ lastReading' = sensorReading
    /\ changes' = IF sensorReading # lastReading THEN changes + 1 ELSE changes
    /\ ticks' = ticks + 1
    /\ pc' = "read"
    /\ UNCHANGED <<midiVars, event, pressured, received, pressedAt,
                   lastNoteChannel>>

Ribbon == \E sensorReading \in Readings, delta \in Deltas :
              RibbonTick(sensorReading, delta)

\* the ribbon left alone: the reading stays what it was, within a millisecond
RibbonIdle == RibbonTick(lastReading, 0)

Next == MidiNoteOn \/ MidiNoteOff \/ MidiAfterTouch \/ MidiOther
        \/ NoMessage \/ Ribbon

NextMidi == MidiNoteOn \/ MidiNoteOff \/ MidiAfterTouch \/ MidiOther
            \/ RibbonIdle

NextRibbon == NoMessage \/ Ribbon

\* the first iterations of loop(), notes coming in while the ribbon is played
RibbonPlayed == ticks < ShortTicks /\ Ribbon

NextLoop == MidiNoteOn \/ MidiNoteOff \/ NoMessage \/ RibbonPlayed

\* the ribbon pushed from one end of the 12 bit range to the other
RibbonSwept ==
    /\ ticks < RangeTicks
    /\ \E sensorReading \in RangeReadings, delta \in Deltas :
          RibbonTick(sensorReading, delta)

NextRange == NoMessage \/ RibbonSwept

NextKeys == KeyPress \/ KeyRelease \/ RibbonIdle

Spec == Init /\ [][Next]_vars

SpecMidi == Init /\ [][NextMidi]_vars

SpecRibbon == Init /\ [][NextRibbon]_vars

SpecLoop == Init /\ [][NextLoop]_vars

SpecRange == InitRange /\ [][NextRange]_vars

SpecKeys == Init /\ [][NextKeys]_vars

(***************************************************************************)
(* The aftertouch remapper.                                                *)
(***************************************************************************)
PolyAftertouch(out) == SelectSeq(out, LAMBDA m : m.type = "AfterTouchPoly")

IsRelease(e) ==
    \/ e.kind = "NoteOff"
    \/ e.kind = "NoteOn" /\ e.data2 = 0

IsPress(e) == e.kind = "NoteOn" /\ e.data2 # 0

MidiStep == pc = "read" /\ pc' = "ribbon"

\* C1: when a note message releases the note whose pressure is recorded as
\* nonzero, or presses another note than that one, the step sends exactly
\* one poly aftertouch, it has pressure 0 and goes to the recorded (note,
\* channel), it is sent before anything else of the step, and the pair is
\* left without pressure.
PressureClearedOnce ==
    [][(/\ MidiStep
        /\ lastAfterTouchMessage.pressure # 0
        /\ \/ IsRelease(event') /\ event'.data1 = lastAfterTouchMessage.note
           \/ IsPress(event') /\ event'.data1 # lastAfterTouchMessage.note)
       => /\ PolyAftertouch(sent') =
                <<send("AfterTouchPoly", lastAfterTouchMessage.note, 0,
                       lastAfterTouchMessage.channel)>>
          /\ sent'[1] = send("AfterTouchPoly", lastAfterTouchMessage.note, 0,
                             lastAfterTouchMessage.channel)
          /\ <<lastAfterTouchMessage.note, lastAfterTouchMessage.channel>>
                \notin pressured'
          /\ lastAfterTouchMessage' = clear]_vars

\* a NoteOn of 64 went out behind the poly aftertouch off of 60 it superseded
SupersededNoteCleared ==
    /\ pc = "ribbon"
    /\ IsPress(event)
    /\ event.data1 = 64
    /\ Len(sent) = 2
    /\ sent[1].type = "AfterTouchPoly"
    /\ sent[1].data1 = 60
    /\ sent[1].data2 = 0
    /\ sent[2].type = "NoteOn"

\* C2: once the release of a note has been handled, no (note, channel) pair
\* of that note is left with nonzero pressure, whatever the channels the
\* aftertouch came in on.
NoPressureLeftAfterRelease ==
    (pc = "ribbon" /\ IsRelease(event))
        => \A c \in Channels : <<event.data1, c>> \notin pressured

\* C3 as claimed: the whole handling of NoteOn(ch, n, 0), the callback and
\* the thru handler behind it, sends the same messages and leaves the same
\* state as the whole handling of NoteOff(ch, n, 0).
NullVelocityNoteOnSameOutput ==
    \A ch \in Channels, n \in Notes :
        MIDIThruHandler(MIDINoteOnHandler(State, ch, n, 0), "NoteOn", n, 0, ch)
            = MIDIThruHandler(MIDINoteOffHandler(State, ch, n, 0),
                              "NoteOff", n, 0, ch)

\* C3 amended: the callbacks agree, MIDINoteOnHandler(ch, n, 0) sends the
\* same messages and leaves the same note buffer, aftertouch message and
\* last channel used as MIDINoteOffHandler(ch, n, 0); the two outgoing
\* sequences differ in nothing but the type of the forwarded note message.
NullVelocityNoteOnSameCallback ==
    \A ch \in Channels, n \in Notes :
        LET on == MIDIThruHandler(MIDINoteOnHandler(State, ch, n, 0),
                                  "NoteOn", n, 0, ch)
            off == MIDIThruHandler(MIDINoteOffHandler(State, ch, n, 0),
                                   "NoteOff", n, 0, ch)
        IN  /\ MIDINoteOnHandler(State, ch, n, 0)
                 = MIDINoteOffHandler(State, ch, n, 0)
            /\ [on EXCEPT !.out = <<>>] = [off EXCEPT !.out = <<>>]
            /\ Len(on.out) = Len(off.out)
            /\ \A i \in 1 .. Len(on.out) :
                  [on.out[i] EXCEPT !.type = "NoteOff"]
                      = [off.out[i] EXCEPT !.type = "NoteOff"]
                  /\ (on.out[i].type # off.out[i].type => i = Len(on.out))

\* a NoteOn with velocity 0 released the note that held pressure
NullVelocityNoteOnReleased ==
    /\ pc = "ribbon"
    /\ event.kind = "NoteOn"
    /\ event.data2 = 0
    /\ Len(sent) = 2
    /\ sent[1] = send("AfterTouchPoly", event.data1, 0, sent[1].channel)
    /\ lastAfterTouchMessage = clear
    /\ midiNoteBuffer # <<>>

\* C4: a channel aftertouch sends exactly one message, the poly aftertouch
\* of the same pressure and channel for curNote(), the sentinel included,
\* and records it; nothing goes out as channel aftertouch.
AftertouchConverted ==
    [][(MidiStep /\ event'.kind = "AfterTouchChannel")
       => /\ sent' = <<send("AfterTouchPoly", curNote(midiNoteBuffer),
                            event'.data1, event'.channel)>>
          /\ lastAfterTouchMessage' =
                [note |-> curNote(midiNoteBuffer), pressure |-> event'.data1,
                 channel |-> event'.channel]
          /\ midiNoteBuffer' = midiNoteBuffer
          /\ lastChannelUsed' = lastChannelUsed]_vars

\* channel aftertouch came in with no note held and went to the sentinel
AftertouchToSentinel ==
    /\ pc = "ribbon"
    /\ event.kind = "AfterTouchChannel"
    /\ event.data1 # 0
    /\ midiNoteBuffer = <<>>
    /\ sent = <<send("AfterTouchPoly", NoNote, event.data1, event.channel)>>
    /\ lastAfterTouchMessage.note = NoNote

\* C5: a message that is neither channel aftertouch nor a note message goes
\* out once, unchanged, and leaves the note buffer, the aftertouch message
\* and the last channel used as they were.
OtherPassedThrough ==
    [][(MidiStep /\ event'.kind \in OtherTypes)
       => /\ sent' = <<send(event'.kind, event'.data1, event'.data2,
                            event'.channel)>>
          /\ UNCHANGED midiVars]_vars

\* a control change went through while a note held pressure on another
\* channel
OtherPassedWhilePressured ==
    /\ pc = "ribbon"
    /\ event.kind = "ControlChange"
    /\ sent = <<send("ControlChange", event.data1, event.data2, event.channel)>>
    /\ lastAfterTouchMessage.pressure # 0
    /\ lastAfterTouchMessage.channel # event.channel
    /\ lastChannelUsed # event.channel

(***************************************************************************)
(* The ribbon.                                                             *)
(***************************************************************************)
RibbonStep == pc = "ribbon" /\ pc' = "read"

WasSettled == Settled(accumulator, sample, currentValue)

\* C6 as claimed: from a settled state one reading more than slope_ysize
\* away from the accumulator leaves currentValue as it was, and the same
\* reading once more makes currentValue the accumulator.
SlopeRejectsThenAccepts ==
    [][RibbonStep
       => /\ (WasSettled
              /\ Abs(lastReading' * Scale - accumulator) > slope_ysize * Scale)
                => currentValue' = currentValue
          /\ (fed = 1 /\ fed' = 2
              /\ Abs(lastReading' * Scale - history[slope_xsize - 1])
                    > slope_ysize * Scale)
                => currentValue' = accumulator']_vars

\* C6 amended: from a settled state one reading leaves currentValue as it
\* was exactly when it moves the accumulator by slope_ysize or more, which
\* a reading 20 or more away from the accumulator does, and a reading less
\* than that away makes currentValue the new accumulator; after a rejected
\* reading the same reading once more is rejected again.
SlopeRejectsTwice ==
    [][RibbonStep
       => /\ WasSettled
                => /\ currentValue' =
                         IF Abs(accumulator' - accumulator) < slope_ysize * Scale
                         THEN accumulator' ELSE currentValue
                   /\ Abs(lastReading' * Scale - accumulator)
                         >= slope_xsize * slope_ysize * Scale
                            => currentValue' = currentValue
          /\ (fed = 1 /\ fed' = 2 /\ currentValue = history[slope_xsize - 1]
              /\ currentValue # accumulator)
                => currentValue' = currentValue]_vars

\* a reading of 20 was fed twice to a ribbon settled at 0 and currentValue
\* is still 0
RejectedTwice ==
    /\ pc = "read"
    /\ fed = 2
    /\ lastReading = 20
    /\ currentValue = 0
    /\ accumulator > slope_ysize * Scale
    /\ history[slope_xsize - 2] = 0

\* C7: every tick compares the new accumulator with the accumulator of 19
\* ticks before (the seed in the first 19 ticks): currentValue becomes the
\* new accumulator iff they differ by less than slope_ysize and else stays.
\* After 19 readings of 0 from a seed of 0 a reading of 20 is rejected and
\* the tick makes no contact transition.
SlopeAgainstNineteenTicksBack ==
    [][RibbonStep
       => /\ currentValue' =
                IF Abs(accumulator' - history[2]) < slope_ysize * Scale
                THEN accumulator' ELSE currentValue
          /\ (ticks = 19 /\ changes = 0 /\ accumulator = 0 /\ lastReading' = 20)
                => /\ currentValue' = 0
                   /\ baseline' = 0
                   /\ branch' = "idle"
                   /\ sent' = <<>>]_vars

\* the 20th reading was 20 after 19 readings of 0 and was rejected, and the
\* sample it was compared with is the one written in the first tick
JumpAfterNineteenRejected ==
    /\ pc = "read"
    /\ ticks = 20
    /\ changes = 1
    /\ lastReading = 20
    /\ accumulator = slope_ysize * Scale
    /\ currentValue = 0
    /\ branch = "idle"
    /\ loopCount = 0

\* C8: two bend messages are never sent within 10 ms of each other: of two
\* ticks in contact whose bend differs from the last bend sent and that are
\* 10 ms or less apart, one at most sends.
BendsMoreThanThrottleApart ==
    [][(RibbonStep /\ branch' = "bend" /\ bendTime # -1)
       => now' - bendTime > ThrottleMs]_vars

\* a bend was sent, and exactly 10 ms later a tick with another bend sent none
SecondBendHeldBack ==
    /\ pc = "read"
    /\ branch = "throttled"
    /\ bendTime # -1
    /\ now - bendTime = ThrottleMs
    /\ Bend(currentValue, baseline) # lastBend

\* C9: a tick in contact whose bend differs from the last bend sent, 10 ms
\* or more after that bend was sent, sends its bend.
BendSentFromThrottleOn ==
    [][(RibbonStep /\ branch' \in {"bend", "throttled"} /\ bendTime # -1
        /\ now' - bendTime >= ThrottleMs)
       => branch' = "bend"]_vars

\* C10: a tick that goes into contact (baseline below baseline_limit,
\* currentValue above it) or out of contact (baseline at or above it,
\* currentValue at or below it) sends exactly one message, a pitch bend of 0,
\* whatever lastMessage and lastBend are.
ContactResetsBend ==
    [][(/\ RibbonStep
        /\ \/ baseline < baseline_limit * Scale
              /\ currentValue' > baseline_limit * Scale
           \/ baseline >= baseline_limit * Scale
              /\ currentValue' <= baseline_limit * Scale)
       => sent' = <<sendPitchBend(0, lastChannelUsed)>>]_vars

\* contact ended in the millisecond a bend of 0 was sent, and the reset
\* went out
ResetInsideThrottle ==
    /\ pc = "read"
    /\ branch = "end"
    /\ bendTime = now
    /\ lastMessage = now
    /\ lastBend = 0
    /\ baseline = 0
    /\ sent = <<sendPitchBend(0, lastChannelUsed)>>

\* C11: a bend message is sent only with a value other than that of the
\* last pitch bend message sent, reset or bend, and 10 ms or more after it;
\* and a tick in contact whose bend differs from the value of the last pitch
\* bend message sent, 10 ms or more after it, sends its bend.
BendOnlyNewAndGated ==
    [][(RibbonStep /\ lastPitch # NoPitch)
       => /\ branch' = "bend"
                => /\ lastPitch'.value # lastPitch.value
                   /\ now' - lastPitch.time >= ThrottleMs
          /\ (/\ branch' \in {"same", "throttled"}
              /\ Bend(currentValue', baseline) # lastPitch.value
              /\ now' - lastPitch.time >= ThrottleMs)
                => FALSE]_vars

\* C13: the contact state machine. Out of contact and currentValue above
\* baseline_limit: baseline becomes currentValue; in contact and
\* currentValue at or below it: baseline becomes 0; in contact and above it:
\* baseline stays; out of contact and at or below it: baseline stays 0 and
\* nothing is sent.
ContactStateMachine ==
    [][RibbonStep
       => LET in == baseline >= baseline_limit * Scale
              up == currentValue' > baseline_limit * Scale
          IN  /\ (~in /\ up) => (baseline' = currentValue' /\ branch' = "start")
              /\ (in /\ ~up) => (baseline' = 0 /\ branch' = "end")
              /\ (in /\ up) => (baseline' = baseline
                                /\ branch' \in {"bend", "same", "throttled"})
              /\ (~in /\ ~up) => (baseline = 0 /\ baseline' = 0
                                  /\ sent' = <<>> /\ branch' = "idle")]_vars

\* the finger went down, stayed, lifted, and the ribbon then stayed
\* untouched for a tick
AllFourContactCases ==
    /\ pc = "read"
    /\ lastReset = "end"
    /\ branch = "idle"
    /\ lastBend # -1
    /\ baseline = 0

\* C18: the zero pitch bends of the contact transitions alternate, contact
\* start first: a contact end follows a contact start, a contact start
\* follows a contact end or nothing.
ResetsAlternate ==
    [][RibbonStep
       => /\ branch' = "start" => lastReset \in {"none", "end"}
          /\ branch' = "end" => lastReset = "start"
          /\ branch' \notin {"start", "end"} => lastReset' = lastReset]_vars

\* the finger went down for the second time
SecondContactStart ==
    /\ pc = "read"
    /\ branch = "start"
    /\ lastReset = "start"
    /\ ticks = 3
    /\ history[slope_xsize - 2] > baseline_limit * Scale
    /\ history[slope_xsize - 1] <= baseline_limit * Scale
    /\ sent = <<sendPitchBend(0, lastChannelUsed)>>

\* C20: the baseline is 0 or above baseline_limit, and loopCount is in
\* 0..19 so that the slot written and the slot read are two slots of the
\* ring buffer.
BaselineAndLoopCountInRange ==
    /\ baseline = 0 \/ baseline > baseline_limit * Scale
    /\ loopCount \in 0 .. slope_xsize - 1
    /\ StoreIndex(loopCount) \in DOMAIN sample
    /\ EarlierIndex(loopCount) \in DOMAIN sample
    /\ StoreIndex(loopCount) # EarlierIndex(loopCount)

\* loopCount wrapped to 0 after 20 ticks with the finger down
LoopCountWrappedInContact ==
    /\ ticks = slope_xsize
    /\ loopCount = 0
    /\ baseline > baseline_limit * Scale

(***************************************************************************)
(* The note buffer behind the callbacks.                                   *)
(***************************************************************************)
Held == {n \in DOMAIN pressedAt : pressedAt[n] > 0}

HeldAfter == {n \in DOMAIN pressedAt : pressedAt'[n] > 0}

\* C14: curNote() is the sentinel exactly when no note is held, and else a
\* note that is held.
CurrentNoteHeld ==
    /\ Held = {} <=> curNote(midiNoteBuffer) = NoNote
    /\ Held # {} => curNote(midiNoteBuffer) \in Held

\* a note that was not the current one was released with two others held
ReleasedBesideCurrent ==
    /\ pc = "ribbon"
    /\ IsRelease(event)
    /\ Cardinality(Held) = 2
    /\ received >= 4
    /\ curNote(midiNoteBuffer) # event.data1

\* C15: a press makes the note the current one; the release of the current
\* note makes the held note pressed last the current one, the sentinel if
\* none is held; the release of another note leaves the current note.
MostRecentNoteWins ==
    [][MidiStep
       => /\ IsPress(event') => curNote(midiNoteBuffer') = event'.data1
          /\ (IsRelease(event') /\ event'.data1 = curNote(midiNoteBuffer))
                => /\ HeldAfter = {} => curNote(midiNoteBuffer') = NoNote
                   /\ HeldAfter # {}
                         => /\ curNote(midiNoteBuffer') \in HeldAfter
                            /\ \A n \in HeldAfter :
                                  pressedAt'[n]
                                     <= pressedAt'[curNote(midiNoteBuffer')]
          /\ (IsRelease(event') /\ event'.data1 # curNote(midiNoteBuffer))
                => curNote(midiNoteBuffer') = curNote(midiNoteBuffer)]_vars

\* 67, 60 and 64 were pressed in that order and 64 released: 60 is current
ReleaseFallsBackToPrevious ==
    /\ pc = "ribbon"
    /\ IsRelease(event)
    /\ event.data1 = 64
    /\ received = 4
    /\ pressedAt[67] = 1
    /\ pressedAt[60] = 2
    /\ curNote(midiNoteBuffer) = 60

\* C16: a press of the note the aftertouch message names, a NoteOn while
\* the recorded pressure is 0, and a NoteOff of another note or while the
\* recorded pressure is 0 send no poly aftertouch and leave the aftertouch
\* message as it was.
NoteMessageLeavesPressure ==
    [][(/\ MidiStep
        /\ \/ IsPress(event') /\ event'.data1 = lastAfterTouchMessage.note
           \/ event'.kind = "NoteOn" /\ lastAfterTouchMessage.pressure = 0
           \/ /\ event'.kind = "NoteOff"
              /\ \/ event'.data1 # lastAfterTouchMessage.note
                 \/ lastAfterTouchMessage.pressure = 0)
       => /\ PolyAftertouch(sent') = <<>>
          /\ lastAfterTouchMessage' = lastAfterTouchMessage]_vars

\* a note other than the one under pressure was released
OtherNoteReleasedUnderPressure ==
    /\ pc = "ribbon"
    /\ event.kind = "NoteOff"
    /\ lastAfterTouchMessage.pressure # 0
    /\ lastAfterTouchMessage.note \in Notes
    /\ lastAfterTouchMessage.note # event.data1
    /\ Len(sent) = 1

\* C17: while the recorded pressure is nonzero the aftertouch message names
\* the current note of the note buffer, the sentinel when no note is held.
PressureOnCurrentNote ==
    lastAfterTouchMessage.pressure # 0
        => lastAfterTouchMessage.note = curNote(midiNoteBuffer)

\* channel aftertouch came in again for the note already under pressure,
\* with another note held below it
PressureRetargetsNothing ==
    /\ pc = "ribbon"
    /\ event.kind = "AfterTouchChannel"
    /\ event.data1 # 0
    /\ Len(midiNoteBuffer) = 2
    /\ pressured = {<<curNote(midiNoteBuffer), event.channel>>}
    /\ received >= 4

(***************************************************************************)
(* The ribbon and the MIDI callbacks in one loop().                        *)
(***************************************************************************)
IsNote(e) == e.kind \in {"NoteOn", "NoteOff"}

\* C12: every pitch bend message, reset or bend, goes out on the channel of
\* the last NoteOn or NoteOff that came in (0, the initial lastChannelUsed,
\* before the first), and when the iteration dispatched a note message
\* before the ribbon code, on the channel of that message.
PitchBendOnLastNoteChannel ==
    [][RibbonStep
       => \A i \in 1 .. Len(sent') :
             sent'[i].type = "PitchBend"
                => /\ sent'[i].channel = lastNoteChannel
                   /\ IsNote(event) => sent'[i].channel = event.channel]_vars

\* a bend went out on channel 2, the channel of the NoteOff dispatched in
\* the same iteration
BendFollowsNoteOfSameTick ==
    /\ pc = "read"
    /\ branch = "bend"
    /\ event.kind = "NoteOff"
    /\ event.channel = 2
    /\ sent = <<sendPitchBend(lastBend, 2)>>
    /\ received = 2
    /\ ticks = 2

\* C19: with readings and seed in 0..4095 the accumulator and currentValue
\* stay in 0..4095 and every pitch bend sent is in -8192..8191.
BendInPitchBendRange ==
    /\ accumulator \in 0 .. AdcMax * Scale
    /\ currentValue \in 0 .. AdcMax * Scale
    /\ \A i \in 1 .. Len(sent) :
          sent[i].type = "PitchBend"
             => sent[i].data1 \in -(2 ^ 13) .. 2 ^ 13 - 1

\* the finger went down just above baseline_limit and is at 4095: the bend
\* sent is the largest there is
LargestBendSent ==
    /\ pc = "read"
    /\ branch = "bend"
    /\ currentValue = AdcMax * Scale
    /\ baseline = baseline_limit * Scale + 1
    /\ sent = <<sendPitchBend(2 * (AdcMax - baseline_limit) - 1, 0)>>

=============================================================================
